---- MODULE Spec2Model ----
(***************************************************************************)
(* Team Spark Telegram bot (src/main.py): the operator registry, the       *)
(* thread table, the collaboration form sessions and the handlers that     *)
(* read and write them, run by the bot's pool of worker threads.           *)
(*                                                                         *)
(* A text is a sequence of tokens: WS is one whitespace character, every   *)
(* other token stands for a run of non-whitespace characters.  A handler   *)
(* invocation is a task; a task takes one step per block of code between   *)
(* two points where another thread can observably run (a blocking send,    *)
(* or the gap between the membership test and the store of                 *)
(* handle_collaborate).  Every send returns or raises; a send that raises  *)
(* ends its handler.  A send after which the handler reads and writes      *)
(* nothing more is made in the step that reaches it; the two sends of a    *)
(* routed reply, which go to two chats, are a step each.                   *)
(*                                                                         *)
(* Message ids number, per chat, the messages a reply can name and the     *)
(* program can tell apart: the inbound messages and the forwarded          *)
(* summaries.  The other texts the bot sends carry id 0: the program never *)
(* reads their ids.                                                        *)
(***************************************************************************)
EXTENDS Integers, Sequences, FiniteSets, TLC

\* ------------------------------------------------------------------ bounds
MaxId == 3
MaxFormId == 6

\* the bot's worker pool (TeleBot is created with its default two threads)
NumThreads == 2

\* visitors write to the team, staff register and answer
Visitors == {1, 2}
Staff == {3, 4}
Users == Visitors \cup Staff

\* ------------------------------------------------------------------- texts
WS == " "

\* Python's None as the value of a session slot: no text equals it (a token
\* of a text is a whitespace character or a non-empty run)
None == <<"">>

\* str(None) for None, the text itself for a text (the f-string conversion)
Format(v) == IF v = None THEN <<"None">> ELSE v

\* the values TEAM_ADMIN_PASSWORD can give the secret: unset (the default
\* "change-me"), another word, the empty string, a word after a blank
DefaultSecret == <<"change-me">>
Secrets == { DefaultSecret, <<"s3cret">>, <<>>, <<WS, "change-me">> }

RECURSIVE lstrip(_)
lstrip(s) ==
    IF s = <<>> THEN s
    ELSE IF Head(s) = WS THEN lstrip(Tail(s)) ELSE s

RECURSIVE rstrip(_)
rstrip(s) ==
    IF s = <<>> THEN s
    ELSE IF s[Len(s)] = WS THEN rstrip(SubSeq(s, 1, Len(s) - 1)) ELSE s

\* str.strip()
strip(s) == rstrip(lstrip(s))

RECURSIVE first_word(_)
first_word(s) ==
    IF s = <<>> \/ Head(s) = WS THEN <<>>
    ELSE <<Head(s)>> \o first_word(Tail(s))

\* str.split(maxsplit=1): the first word, then the rest after the whitespace
\* that follows it (trailing whitespace of the rest is kept)
split1(s) ==
    LET a == lstrip(s)
        w == first_word(a)
        r == lstrip(SubSeq(a, Len(w) + 1, Len(a)))
    IN  IF a = <<>> THEN <<>>
        ELSE IF r = <<>> THEN <<w>>
        ELSE <<w, r>>

\* str.lower() of a token, for the tokens of the model that hold capitals
lower_token(x) ==
    CASE x \in {"Apply", "APPLY"} -> "apply"
      [] x \in {"To", "TO"} -> "to"
      [] x \in {"Team", "TEAM"} -> "team"
      [] x \in {"Contact", "CONTACT"} -> "contact"
      [] x \in {"Collaborate", "COLLABORATE"} -> "collaborate"
      [] x \in {"With", "WITH"} -> "with"
      [] x \in {"None", "NONE"} -> "none"
      [] OTHER -> x

\* str.lower()
lower(s) == [i \in 1..Len(s) |-> lower_token(s[i])]

CommandTokens ==
    {"/start", "/help", "/apply", "/register", "/contact", "/collaborate"}

\* telebot's command test: a text message that starts with "/"; the command
\* is the first word
extract_command(m) ==
    IF m.ctype = "text" /\ m.text # <<>> /\ Head(m.text) \in CommandTokens
           /\ first_word(m.text) = <<Head(m.text)>>
    THEN Head(m.text)
    ELSE "none"

\* the message handlers in the order register_handlers declares them; the
\* first whose filter accepts the message runs
Dispatch(m) ==
    IF extract_command(m) \in {"/start", "/help"} THEN "send_welcome"
    ELSE IF extract_command(m) = "/apply" THEN "handle_apply"
    ELSE IF extract_command(m) = "/register" THEN "handle_register"
    ELSE IF extract_command(m) = "/contact" THEN "handle_contact"
    ELSE IF m.ctype = "text" /\ lower(m.text) = <<"apply", WS, "to", WS, "team">>
    THEN "handle_text_apply"
    ELSE IF extract_command(m) = "/collaborate" THEN "handle_collaborate"
    ELSE IF m.ctype = "text" /\ lower(m.text) = <<"contact", WS, "team">>
    THEN "handle_text_contact"
    ELSE IF m.ctype = "text"
            /\ lower(m.text) = <<"collaborate", WS, "with", WS, "team">>
    THEN "handle_text_collaborate"
    ELSE IF m.ctype = "text" THEN "handle_admin_reply"
    ELSE "none"

\* ------------------------------------------------------------------ values
GroupChat == 0
Chats == Users \cup {GroupChat}

NoReply == [chat |-> 0, id |-> 0]

NoSummary ==
    [kind |-> "none", from_name |-> 0, user_id |-> 0, chat_id |-> 0, body |-> <<>>]

\* an inbound message: message.from_user.id, message.chat.id, message.message_id,
\* message.content_type, message.text (the empty text for None) and
\* message.reply_to_message (chat id and message id)
Message(u, c, i, ct, tx, rp) ==
    [from |-> u, chat |-> c, id |-> i, ctype |-> ct, text |-> tx, reply |-> rp]

NoMessage == Message(0, 0, 0, "none", <<>>, NoReply)

\* the broadcast a send belongs to: its origin message and the operator set
\* when _broadcast_to_admins was called
NoBroadcast == [ochat |-> 0, oid |-> 0, snap |-> {}]

VARIABLES
    ADMIN_REGISTRATION_PASSWORD, \* the secret read from the environment
    admin_ids,            \* set of operator user ids
    contact_threads,      \* (chat id, message id) -> ContactThread
    collaborate_sessions, \* user id -> reference into heap, 0 when absent
    heap,                 \* the CollaborateFormSession objects ever created
    next_step,            \* chat id -> next-step handlers registered for it
    tasks,                \* the handler invocations in flight
    nextId,               \* chat id -> id of the next message of that chat
    sent,                 \* the sends attempted by the last step, in order
    last,                 \* the step taken last and the message it worked on
    delivered,            \* forwarded copies that reached an operator's chat
    accepted              \* per session, the texts its capture handlers took

vars ==
    <<ADMIN_REGISTRATION_PASSWORD, admin_ids, contact_threads, collaborate_sessions, heap, next_step, tasks,
      nextId, sent, last, delivered, accepted>>

ContactThread(user_chat_id, user_message_id, user_name, message_text) ==
    [user_chat_id |-> user_chat_id, user_message_id |-> user_message_id,
     user_name |-> user_name, message_text |-> message_text]

CollaborateFormSession(chat_id, user_id) ==
    [chat_id |-> chat_id, user_id |-> user_id, name |-> None,
     organization |-> None, idea |-> None, timeline |-> None,
     contact_info |-> None]

NoThread == ContactThread(0, 0, 0, NoSummary)

\* a handler invocation: the handler, where it stands, its message, and its
\* locals (the continuation and session of a form step; the summary, the
\* acknowledgment and the set iterator of a broadcast; the thread of a routed
\* reply).  snap is the operator set when _broadcast_to_admins was called
\* (history, never read by a step).
Task(h, pc, m, nh, sess) ==
    [h |-> h, pc |-> pc, msg |-> m, nh |-> nh, sess |-> sess,
     summary |-> NoSummary, ack |-> "none", cur |-> 0, used |-> 0, snap |-> {},
     thread |-> NoThread]

\* one attempted send: the chat, the id the transport gave the message (0 when
\* the send raised or the id is not modelled), which text it was, and for a
\* summary its fields and its broadcast
Out(chat, id, kind, ok, text, summary, bc) ==
    [chat |-> chat, id |-> IF ok THEN id ELSE 0, kind |-> kind, ok |-> ok,
     text |-> text, summary |-> summary, bc |-> bc]

BroadcastOf(t) == [ochat |-> t.msg.chat, oid |-> t.msg.id, snap |-> t.snap]

Alloc(nid, chat, ok) == IF ok THEN [nid EXCEPT ![chat] = @ + 1] ELSE nid

Min(S) == CHOOSE x \in S : \A y \in S : x <= y

\* a faulty _is_admin that lets every user through
is_admin_anyone(user_id) == TRUE

_is_admin(user_id) == user_id \in admin_ids

\* the module is loaded (the secret is read) and register_handlers has run
Init ==
    /\ ADMIN_REGISTRATION_PASSWORD \in Secrets
    /\ admin_ids = {}
    /\ contact_threads = [k \in {} |-> NoThread]
    /\ collaborate_sessions = [u \in Users |-> 0]
    /\ heap = <<>>
    /\ next_step = [c \in Chats |-> <<>>]
    /\ tasks = {}
    /\ nextId = [c \in Chats |-> 1]
    /\ sent = <<>>
    /\ last = [h |-> "none", m |-> NoMessage]
    /\ delivered = {}
    /\ accepted = <<>>

\* the same with TEAM_ADMIN_PASSWORD unset
InitDefault == Init /\ ADMIN_REGISTRATION_PASSWORD = DefaultSecret

\* ---------------------------------------------------------------- dispatch
\* An update arrives for a message handler: no next-step handler is registered
\* for its chat, h is the first message handler that accepts it, and a worker
\* thread is free to run it.  The handler's code up to its first blocking send
\* is part of the same step.
Handles(h, m) ==
    /\ m.id = nextId[m.chat]
    /\ next_step[m.chat] = <<>>
    /\ Dispatch(m) = h
    /\ Cardinality(tasks) < NumThreads

\* the chat's message counter after the inbound message m
Inbound(m) == [nextId EXCEPT ![m.chat] = @ + 1]

\* one send of a text to a chat, after which the handler does nothing more:
\* it returns or raises
SendLast(chat, kind) ==
    \E ok \in BOOLEAN :
       sent' = <<Out(chat, 0, kind, ok, <<>>, NoSummary, NoBroadcast)>>

\* ------------------------------------------------------------------- menu
\* /start, /help: the welcome text with the three buttons
send_welcome(m) ==
    /\ Handles("send_welcome", m)
    /\ last' = [h |-> "send_welcome", m |-> m]
    /\ SendLast(m.chat, "welcome")
    /\ nextId' = Inbound(m)
    /\ UNCHANGED <<ADMIN_REGISTRATION_PASSWORD, admin_ids, contact_threads,
                   collaborate_sessions, heap, next_step, tasks, delivered, accepted>>

\* the application text with the link to the form
apply_to_team(m) == SendLast(m.chat, "apply")

\* /apply
handle_apply(m) ==
    /\ Handles("handle_apply", m)
    /\ last' = [h |-> "handle_apply", m |-> m]
    /\ apply_to_team(m)
    /\ nextId' = Inbound(m)
    /\ UNCHANGED <<ADMIN_REGISTRATION_PASSWORD, admin_ids, contact_threads,
                   collaborate_sessions, heap, next_step, tasks, delivered, accepted>>

\* the button "Apply to Team"
handle_text_apply(m) ==
    /\ Handles("handle_text_apply", m)
    /\ last' = [h |-> "handle_text_apply", m |-> m]
    /\ apply_to_team(m)
    /\ nextId' = Inbound(m)
    /\ UNCHANGED <<ADMIN_REGISTRATION_PASSWORD, admin_ids, contact_threads,
                   collaborate_sessions, heap, next_step, tasks, delivered, accepted>>

\* the button "Contact Team": the hint to use /contact
handle_text_contact(m) ==
    /\ Handles("handle_text_contact", m)
    /\ last' = [h |-> "handle_text_contact", m |-> m]
    /\ SendLast(m.chat, "contact_hint")
    /\ nextId' = Inbound(m)
    /\ UNCHANGED <<ADMIN_REGISTRATION_PASSWORD, admin_ids, contact_threads,
                   collaborate_sessions, heap, next_step, tasks, delivered, accepted>>

\* ---------------------------------------------------------------- register
\* a faulty handle_register that compares the password without stripping it
register_outcome_unstripped(text) ==
    LET parts == split1(text)
    IN  IF Len(parts) < 2 THEN "reg_usage"
        ELSE IF parts[2] # ADMIN_REGISTRATION_PASSWORD THEN "reg_bad"
        ELSE "reg_ok"

\* a faulty handle_register that takes any password
register_outcome_any(text) ==
    IF Len(split1(text)) < 2 THEN "reg_usage" ELSE "reg_ok"

\* the reply handle_register gives: the usage text when no password follows
\* the command, else by comparing the stripped rest with the configured secret
register_outcome(text) ==
    LET parts == split1(text)
    IN  IF Len(parts) < 2 THEN "reg_usage"
        ELSE IF strip(parts[2]) # ADMIN_REGISTRATION_PASSWORD THEN "reg_bad"
        ELSE "reg_ok"

handle_register(m) ==
    /\ Handles("handle_register", m)
    /\ last' = [h |-> "handle_register", m |-> m]
    /\ admin_ids' = IF register_outcome(m.text) = "reg_ok"
                    THEN admin_ids \cup {m.from}
                    ELSE admin_ids
    /\ SendLast(m.chat, register_outcome(m.text))
    /\ nextId' = Inbound(m)
    /\ UNCHANGED <<ADMIN_REGISTRATION_PASSWORD, contact_threads,
                   collaborate_sessions, heap, next_step, tasks, delivered, accepted>>

\* --------------------------------------------------------------- broadcast
\* the set iterator of "for admin_id in admin_ids": it raises when the set
\* changed size since the iterator was made, else yields the members in table
\* order (ascending, for the small ids of the model); 0 is StopIteration
IterRaises(used) == Cardinality(admin_ids) # used
IterNext(pos) ==
    IF \E a \in admin_ids : a > pos THEN Min({a \in admin_ids : a > pos}) ELSE 0

\* _broadcast_to_admins is entered: its first send (the acknowledgment) starts
EnterBroadcast(t, summary, ack) ==
    [t EXCEPT !.pc = "ack", !.summary = summary, !.ack = ack, !.snap = admin_ids]

\* the acknowledgment send returns (or raises, which ends the handler); then
\* the empty-set test and either the notice or the start of the fan-out
broadcast_ack(t) ==
    /\ t \in tasks /\ t.pc = "ack"
    /\ last' = [h |-> "broadcast_ack", m |-> t.msg]
    /\ \E ok \in BOOLEAN :
         LET uc == t.msg.chat
             a == Out(uc, 0, t.ack, ok, <<>>, NoSummary, BroadcastOf(t))
         IN  IF ~ok
             THEN /\ sent' = <<a>> /\ tasks' = tasks \ {t}
             ELSE IF admin_ids = {}
             THEN /\ \E ok2 \in BOOLEAN :
                       sent' = <<a, Out(uc, 0, "notice", ok2, <<>>, NoSummary,
                                        BroadcastOf(t))>>
                  /\ tasks' = tasks \ {t}
             ELSE /\ sent' = <<a>>
                  /\ tasks' = (tasks \ {t}) \cup
                       {[t EXCEPT !.pc = "fanout", !.used = Cardinality(admin_ids),
                                  !.cur = IterNext(0)]}
    /\ UNCHANGED <<ADMIN_REGISTRATION_PASSWORD, admin_ids, contact_threads,
                   collaborate_sessions, heap, next_step,
                   nextId, delivered, accepted>>

\* a faulty thread that records the operator's chat as the visitor's
ThreadForOperator(t) ==
    ContactThread(t.cur, t.msg.id, t.msg.from, t.summary)

\* the thread recorded for the copy sent to one operator
ThreadFor(t) ==
    ContactThread(t.msg.chat, t.msg.id, t.msg.from, t.summary)

\* a faulty key that names the operator's chat only
ThreadKeyByChat(o) == <<o.chat, 0>>

\* the key of a forwarded copy: (forwarded.chat.id, forwarded.message_id)
ThreadKey(o) == <<o.chat, o.id>>

\* the send to the current operator returns: its thread is recorded and the
\* iterator is advanced; a send that raises, or an iterator that raises, ends
\* the handler
broadcast_send(t) ==
    /\ t \in tasks /\ t.pc = "fanout"
    /\ last' = [h |-> "broadcast_send", m |-> t.msg]
    /\ \E ok \in BOOLEAN :
         LET o == Out(t.cur, nextId[t.cur], "summary", ok, <<>>, t.summary, BroadcastOf(t))
         IN  /\ sent' = <<o>>
             /\ nextId' = Alloc(nextId, t.cur, ok)
             /\ IF ~ok
                THEN /\ tasks' = tasks \ {t}
                     /\ UNCHANGED <<contact_threads, delivered>>
                ELSE /\ contact_threads' = (ThreadKey(o) :> ThreadFor(t)) @@ contact_threads
                     /\ delivered' = delivered \cup
                          {[chat |-> o.chat, id |-> o.id, ochat |-> t.msg.chat,
                            oid |-> t.msg.id]}
                     /\ IF IterRaises(t.used) \/ IterNext(t.cur) = 0
                        THEN tasks' = tasks \ {t}
                        ELSE tasks' = (tasks \ {t}) \cup {[t EXCEPT !.cur = IterNext(t.cur)]}
    /\ UNCHANGED <<ADMIN_REGISTRATION_PASSWORD, admin_ids, collaborate_sessions, heap,
                   next_step, accepted>>

\* ----------------------------------------------------------------- contact
ContactSummary(m, details) ==
    [kind |-> "contact", from_name |-> m.from, user_id |-> m.from,
     chat_id |-> m.chat, body |-> <<details>>]

handle_contact(m) ==
    /\ Handles("handle_contact", m)
    /\ last' = [h |-> "handle_contact", m |-> m]
    /\ LET parts == split1(m.text)
       IN  IF Len(parts) < 2 \/ strip(parts[2]) = <<>>
           THEN /\ SendLast(m.chat, "contact_usage")
                /\ tasks' = tasks
           ELSE /\ sent' = <<>>
                /\ tasks' = tasks \cup
                     {EnterBroadcast(Task("handle_contact", "start", m, "none", 0),
                                     ContactSummary(m, strip(parts[2])), "ack_contact")}
    /\ nextId' = Inbound(m)
    /\ UNCHANGED <<ADMIN_REGISTRATION_PASSWORD, admin_ids, contact_threads,
                   collaborate_sessions, heap, next_step,
                   delivered, accepted>>

\* ------------------------------------------------------------- admin reply
\* a faulty lookup that takes any thread of the chat replied in
reply_key_by_chat(m) ==
    IF \E k \in DOMAIN contact_threads : k[1] = m.reply.chat
    THEN CHOOSE k \in DOMAIN contact_threads : k[1] = m.reply.chat
    ELSE <<m.reply.chat, m.reply.id>>

\* thread_key: (reply_to_message.chat.id, reply_to_message.message_id)
reply_key(m) == <<m.reply.chat, m.reply.id>>

\* a text that is none of the above: a reply by an operator to a forwarded
\* copy is routed; the thread is looked up and the send to the visitor starts
handle_admin_reply(m) ==
    /\ Handles("handle_admin_reply", m)
    /\ last' = [h |-> "handle_admin_reply", m |-> m]
    /\ LET thread_key == reply_key(m)
       IN  IF \/ m.reply.id = 0
              \/ ~_is_admin(m.from)
              \/ thread_key \notin DOMAIN contact_threads
           THEN tasks' = tasks
           ELSE tasks' = tasks \cup
                  {[Task("handle_admin_reply", "team_reply", m, "none", 0)
                      EXCEPT !.thread = contact_threads[thread_key]]}
    /\ sent' = <<>>
    /\ nextId' = Inbound(m)
    /\ UNCHANGED <<ADMIN_REGISTRATION_PASSWORD, admin_ids, contact_threads,
                   collaborate_sessions, heap, next_step, delivered, accepted>>

\* the send of the reply text to thread.user_chat_id returns, and the
\* confirmation starts, or it raises
reply_send(t) ==
    /\ t \in tasks /\ t.pc = "team_reply"
    /\ last' = [h |-> "reply_send", m |-> t.msg]
    /\ \E ok \in BOOLEAN :
         /\ sent' = <<Out(t.thread.user_chat_id, 0, "team_reply", ok, t.msg.text,
                          NoSummary, NoBroadcast)>>
         /\ tasks' = IF ok THEN (tasks \ {t}) \cup {[t EXCEPT !.pc = "confirm"]}
                     ELSE tasks \ {t}
    /\ UNCHANGED <<ADMIN_REGISTRATION_PASSWORD, admin_ids, contact_threads,
                   collaborate_sessions, heap, next_step, nextId, delivered, accepted>>

\* the confirmation to the operator returns or raises
reply_confirm(t) ==
    /\ t \in tasks /\ t.pc = "confirm"
    /\ last' = [h |-> "reply_confirm", m |-> t.msg]
    /\ SendLast(t.msg.chat, "confirm")
    /\ tasks' = tasks \ {t}
    /\ UNCHANGED <<ADMIN_REGISTRATION_PASSWORD, admin_ids, contact_threads,
                   collaborate_sessions, heap, next_step, nextId, delivered, accepted>>

\* ------------------------------------------------------ routing behaviours
VisitorTexts == { <<"/contact", WS, "a", WS>> }
StaffTexts ==
    { <<"/register", WS, "change-me", WS>>, <<"/register", WS, "s3cret">>,
      <<"a">> }

\* a visitor's request is the first message of the visitor's chat
AskIds == {1}

\* commands and plain texts sent by a user in the private chat with the bot,
\* and replies, by any member of staff, to a message of a staff chat
RouteInputs ==
    { m \in { Message(u, u, nextId[u], "text", tx, NoReply) :
                u \in Visitors, tx \in VisitorTexts } : m.id \in AskIds }
    \cup
    { Message(u, u, nextId[u], "text", tx, NoReply) : u \in Staff, tx \in StaffTexts }
    \cup
    UNION { UNION { { Message(u, c, nextId[c], "text", <<"a">>, [chat |-> c, id |-> i]) :
                      i \in 1..(nextId[c] - 1) } : c \in Staff } : u \in Staff }

NextRoute ==
    \/ \E m \in RouteInputs : m.id <= MaxId /\ handle_register(m)
    \/ \E m \in RouteInputs : m.id <= MaxId /\ handle_contact(m)
    \/ \E m \in RouteInputs : m.id <= MaxId /\ handle_admin_reply(m)
    \/ \E t \in tasks : broadcast_ack(t)
    \/ \E t \in tasks : broadcast_send(t)
    \/ \E t \in tasks : reply_send(t)
    \/ \E t \in tasks : reply_confirm(t)

SpecRoute == Init /\ [][NextRoute]_vars

\* ------------------------------------------------------------ collaborate
\* a faulty membership test that never finds a session
has_session_never(user_id) == FALSE

\* user_id in collaborate_sessions
has_session(user_id) == collaborate_sessions[user_id] # 0

\* handle_collaborate up to the store: the membership test, and the reply
\* when it finds a session
handle_collaborate_call(m) ==
    /\ last' = [h |-> "handle_collaborate", m |-> m]
    /\ IF has_session(m.from)
       THEN /\ SendLast(m.chat, "already")
            /\ tasks' = tasks
       ELSE /\ sent' = <<>>
            /\ tasks' = tasks \cup {Task("handle_collaborate", "store", m, "none", 0)}
    /\ nextId' = Inbound(m)
    /\ UNCHANGED <<ADMIN_REGISTRATION_PASSWORD, admin_ids, contact_threads,
                   collaborate_sessions, heap, next_step, delivered, accepted>>

\* /collaborate
handle_collaborate(m) ==
    /\ Handles("handle_collaborate", m)
    /\ handle_collaborate_call(m)

\* the button "Collaborate with Team": calls handle_collaborate
handle_text_collaborate(m) ==
    /\ Handles("handle_text_collaborate", m)
    /\ handle_collaborate_call(m)

\* the session is made and stored under the user id, and the first prompt is
\* on its way
collaborate_store(t) ==
    /\ t \in tasks /\ t.h = "handle_collaborate" /\ t.pc = "store"
    /\ last' = [h |-> "collaborate_store", m |-> t.msg]
    /\ heap' = Append(heap, CollaborateFormSession(t.msg.chat, t.msg.from))
    /\ collaborate_sessions' = [collaborate_sessions EXCEPT ![t.msg.from] = Len(heap) + 1]
    /\ tasks' = (tasks \ {t}) \cup
         {[t EXCEPT !.pc = "prompt", !.sess = Len(heap) + 1, !.nh = "_capture_name"]}
    /\ accepted' = Append(accepted, <<>>)
    /\ sent' = <<>>
    /\ UNCHANGED <<ADMIN_REGISTRATION_PASSWORD, admin_ids, contact_threads, next_step,
                   nextId, delivered>>

\* a faulty chain that goes from the name straight to the idea
NextHandlerSkipping(h) ==
    CASE h = "_capture_name" -> "_capture_idea"
      [] h = "_capture_idea" -> "_capture_timeline"
      [] h = "_capture_timeline" -> "_capture_contact_info"
      [] OTHER -> "none"

\* the slots in the order the handlers chain them
NextHandler(h) ==
    CASE h = "_capture_name" -> "_capture_organization"
      [] h = "_capture_organization" -> "_capture_idea"
      [] h = "_capture_idea" -> "_capture_timeline"
      [] h = "_capture_timeline" -> "_capture_contact_info"
      [] OTHER -> "none"

\* the prompt that asks for the slot a handler captures
PromptFor(h) ==
    CASE h = "_capture_name" -> "prompt_name"
      [] h = "_capture_organization" -> "prompt_organization"
      [] h = "_capture_idea" -> "prompt_idea"
      [] h = "_capture_timeline" -> "prompt_timeline"
      [] h = "_capture_contact_info" -> "prompt_contact_info"
      [] OTHER -> "none"

\* a faulty _capture_organization that assigns the name again
capture_organization_as_name(m, session) == [session EXCEPT !.name = strip(m.text)]

_capture_name(m, session) == [session EXCEPT !.name = strip(m.text)]
_capture_organization(m, session) == [session EXCEPT !.organization = strip(m.text)]
_capture_idea(m, session) == [session EXCEPT !.idea = strip(m.text)]
_capture_timeline(m, session) == [session EXCEPT !.timeline = strip(m.text)]
_capture_contact_info(m, session) == [session EXCEPT !.contact_info = strip(m.text)]

\* the assignment a capture handler makes to the session
Capture(h, m, session) ==
    CASE h = "_capture_name" -> _capture_name(m, session)
      [] h = "_capture_organization" -> _capture_organization(m, session)
      [] h = "_capture_idea" -> _capture_idea(m, session)
      [] h = "_capture_timeline" -> _capture_timeline(m, session)
      [] h = "_capture_contact_info" -> _capture_contact_info(m, session)

\* the chat a prompt goes to: the chat of the /collaborate message for the
\* first prompt, session.chat_id for the others
PromptChat(t) ==
    IF t.h = "handle_collaborate" THEN t.msg.chat ELSE heap[t.sess].chat_id

\* a prompt send returns: the handler for the slot it asks for is registered
\* as the next step of the prompt's chat
prompt_done(t) ==
    /\ t \in tasks /\ t.pc = "prompt"
    /\ last' = [h |-> "prompt_done", m |-> t.msg]
    /\ \E ok \in BOOLEAN :
         /\ sent' = <<Out(PromptChat(t), 0, PromptFor(t.nh), ok, <<>>, NoSummary, NoBroadcast)>>
         /\ next_step' =
              IF ok
              THEN [next_step EXCEPT ![PromptChat(t)] =
                      Append(@, [nh |-> t.nh, sess |-> t.sess])]
              ELSE next_step
    /\ tasks' = tasks \ {t}
    /\ UNCHANGED <<ADMIN_REGISTRATION_PASSWORD, admin_ids, contact_threads,
                   collaborate_sessions, heap, nextId,
                   delivered, accepted>>

\* An update arrives for a chat with next-step handlers: they are taken out of
\* the registry and each is run on the message by a worker thread
notify_next_handlers(m) ==
    /\ m.id = nextId[m.chat]
    /\ last' = [h |-> "notify_next_handlers", m |-> m]
    /\ next_step[m.chat] # <<>>
    /\ Cardinality(tasks) + Len(next_step[m.chat]) <= NumThreads
    /\ tasks' = tasks \cup
         { Task("_ensure_text", "start", m, next_step[m.chat][i].nh,
                next_step[m.chat][i].sess) : i \in 1..Len(next_step[m.chat]) }
    /\ next_step' = [next_step EXCEPT ![m.chat] = <<>>]
    /\ nextId' = Inbound(m)
    /\ sent' = <<>>
    /\ UNCHANGED <<ADMIN_REGISTRATION_PASSWORD, admin_ids, contact_threads,
                   collaborate_sessions, heap, delivered, accepted>>

\* a faulty summary with the name and the organization exchanged
CollaborationSummarySwapped(session, m) ==
    [kind |-> "collab", from_name |-> m.from, user_id |-> session.user_id,
     chat_id |-> session.chat_id,
     body |-> <<Format(session.organization), Format(session.name),
                Format(session.idea), Format(session.timeline),
                Format(session.contact_info)>>]

\* the fields of the summary text: the five slots as the f-string writes them
CollaborationSummary(session, m) ==
    [kind |-> "collab", from_name |-> m.from, user_id |-> session.user_id,
     chat_id |-> session.chat_id,
     body |-> <<Format(session.name), Format(session.organization),
                Format(session.idea), Format(session.timeline),
                Format(session.contact_info)>>]

\* a faulty _send_collaboration that leaves the session in the store
send_collaboration_keeping(session) == collaborate_sessions

\* the store after collaborate_sessions.pop(session.user_id, None)
_send_collaboration(session) ==
    [collaborate_sessions EXCEPT ![session.user_id] = 0]

\* _ensure_text on the message: a message without text sends the retry text;
\* a text runs the capture handler, which stores the stripped text and sends
\* the next prompt or, for the last slot, removes the session and broadcasts
_ensure_text(t) ==
    /\ t \in tasks /\ t.h = "_ensure_text" /\ t.pc = "start"
    /\ last' = [h |-> "_ensure_text", m |-> t.msg]
    /\ sent' = <<>>
    /\ IF t.msg.ctype # "text" \/ t.msg.text = <<>>
       THEN /\ tasks' = (tasks \ {t}) \cup {[t EXCEPT !.pc = "retry"]}
            /\ UNCHANGED <<heap, collaborate_sessions, accepted>>
       ELSE LET session == Capture(t.nh, t.msg, heap[t.sess])
            IN  /\ heap' = [heap EXCEPT ![t.sess] = session]
                /\ accepted' = [accepted EXCEPT ![t.sess] = Append(@, t.msg.text)]
                /\ IF t.nh = "_capture_contact_info"
                   THEN /\ collaborate_sessions' = _send_collaboration(session)
                        /\ tasks' = (tasks \ {t}) \cup
                             {EnterBroadcast(t, CollaborationSummary(session, t.msg),
                                             "ack_collab")}
                   ELSE /\ collaborate_sessions' = collaborate_sessions
                        /\ tasks' = (tasks \ {t}) \cup
                             {[t EXCEPT !.pc = "prompt", !.nh = NextHandler(t.nh)]}
    /\ UNCHANGED <<ADMIN_REGISTRATION_PASSWORD, admin_ids, contact_threads, next_step,
                   nextId, delivered>>

\* the continuation a retry registers: _ensure_text with the same next handler
\* and the same session
RetryContinuation(t) == [nh |-> t.nh, sess |-> t.sess]

\* the retry send returns: the continuation is registered as the next step of
\* the chat of the retry message
retry_done(t) ==
    /\ t \in tasks /\ t.pc = "retry"
    /\ last' = [h |-> "retry_done", m |-> t.msg]
    /\ \E ok \in BOOLEAN :
         /\ sent' = <<Out(t.msg.chat, 0, "retry", ok, <<>>, NoSummary, NoBroadcast)>>
         /\ next_step' =
              IF ok
              THEN [next_step EXCEPT ![t.msg.chat] = Append(@, RetryContinuation(t))]
              ELSE next_step
    /\ tasks' = tasks \ {t}
    /\ UNCHANGED <<ADMIN_REGISTRATION_PASSWORD, admin_ids, contact_threads,
                   collaborate_sessions, heap, nextId,
                   delivered, accepted>>

\* a message no handler accepts (not a text, and no next step registered)
unhandled(m) ==
    /\ m.id = nextId[m.chat]
    /\ last' = [h |-> "unhandled", m |-> m]
    /\ next_step[m.chat] = <<>>
    /\ Dispatch(m) = "none"
    /\ nextId' = Inbound(m)
    /\ sent' = <<>>
    /\ UNCHANGED <<ADMIN_REGISTRATION_PASSWORD, admin_ids, contact_threads,
                   collaborate_sessions, heap, next_step,
                   tasks, delivered, accepted>>

\* --------------------------------------------------------- form behaviours
FormUsers == {1}
FormStaff == {3}
FormTexts == { <<"/collaborate">>, <<WS, "None", WS>> }

\* a form user sends /collaborate, an answer, a photo or an empty text in the
\* private chat;
\* a member of staff who is not an operator yet registers
FormInputs ==
    { Message(u, u, nextId[u], "text", tx, NoReply) : u \in FormUsers, tx \in FormTexts }
    \cup
    { Message(u, u, nextId[u], ct, <<>>, NoReply) : u \in FormUsers, ct \in {"photo", "text"} }
    \cup
    { Message(u, u, nextId[u], "text", <<"/register", WS, "change-me">>, NoReply) :
        u \in FormStaff \ admin_ids }

NextForm ==
    \/ \E m \in FormInputs : m.id <= MaxFormId /\ handle_register(m)
    \/ \E m \in FormInputs : m.id <= MaxFormId /\ handle_collaborate(m)
    \/ \E m \in FormInputs : m.id <= MaxFormId /\ handle_admin_reply(m)
    \/ \E m \in FormInputs : m.id <= MaxFormId /\ notify_next_handlers(m)
    \/ \E m \in FormInputs : m.id <= MaxFormId /\ unhandled(m)
    \/ \E t \in tasks : collaborate_store(t)
    \/ \E t \in tasks : prompt_done(t)
    \/ \E t \in tasks : _ensure_text(t)
    \/ \E t \in tasks : retry_done(t)
    \/ \E t \in tasks : broadcast_ack(t)
    \/ \E t \in tasks : broadcast_send(t)

SpecForm == InitDefault /\ [][NextForm]_vars

\* ------------------------------------------------------- fan-out behaviours
\* one visitor asks while users register: anyone who knows the secret can
FanoutVisitors == {1}
FanoutStaff == {2, 3, 4}

\* the commands and buttons of the menu
MenuTexts ==
    { <<"/start">>, <<"/apply">>, <<"Apply", WS, "to", WS, "Team">>,
      <<"Contact", WS, "Team">> }

FanoutInputs ==
    { m \in { Message(u, u, nextId[u], "text", tx, NoReply) :
                u \in FanoutVisitors, tx \in VisitorTexts } : m.id \in AskIds }
    \cup
    { Message(u, u, nextId[u], "text", tx, NoReply) :
        u \in FanoutVisitors, tx \in MenuTexts }
    \cup
    { Message(u, u, nextId[u], "text", <<"/register", WS, "change-me">>, NoReply) :
        u \in FanoutStaff }

NextFanout ==
    \/ \E m \in FanoutInputs : m.id <= MaxId /\ handle_register(m)
    \/ \E m \in FanoutInputs : m.id <= MaxId /\ handle_contact(m)
    \/ \E m \in FanoutInputs : m.id <= MaxId /\ send_welcome(m)
    \/ \E m \in FanoutInputs : m.id <= MaxId /\ handle_apply(m)
    \/ \E m \in FanoutInputs : m.id <= MaxId /\ handle_text_apply(m)
    \/ \E m \in FanoutInputs : m.id <= MaxId /\ handle_text_contact(m)
    \/ \E t \in tasks : broadcast_ack(t)
    \/ \E t \in tasks : broadcast_send(t)

SpecFanout == Init /\ [][NextFanout]_vars

\* ---------------------------------------------------------- chat behaviours
\* two users write in a group chat they share and start the form with the
\* button; a handler a worker thread has started runs to its end
MaxChatId == 3
ChatUsers == {1, 2}
ChatTexts == { <<"Collaborate", WS, "with", WS, "Team">>, <<"None">> }

ChatInputs ==
    { Message(u, GroupChat, nextId[GroupChat], "text", tx, NoReply) :
        u \in ChatUsers, tx \in ChatTexts }

NextChat ==
    \/ \E m \in ChatInputs : m.id <= MaxChatId /\ handle_text_collaborate(m)
    \/ \E m \in ChatInputs : m.id <= MaxChatId /\ handle_admin_reply(m)
    \/ \E m \in ChatInputs : m.id <= MaxChatId /\ notify_next_handlers(m)
    \/ \E t \in tasks : collaborate_store(t)
    \/ \E t \in tasks : prompt_done(t)
    \/ \E t \in tasks : _ensure_text(t)

SpecChat ==
    /\ InitDefault /\ [][NextChat]_vars
    /\ WF_vars(\E t \in tasks : collaborate_store(t))
    /\ WF_vars(\E t \in tasks : prompt_done(t))
    /\ WF_vars(\E t \in tasks : _ensure_text(t))

\* ================================================================== claims
\* the forwarded copy an update replies to
CopyRepliedTo(m) ==
    { d \in delivered : d.chat = m.reply.chat /\ d.id = m.reply.id }

\* C1: when a registered operator replies to a forwarded message recorded in
\* the thread table, the reply is routed: the text it sends is the reply text
\* and goes to the chat of the visitor whose message produced that copy; the
\* only other send of the reply is the confirmation, to the operator's chat;
\* every recorded thread names the origin of its forwarded copy.
C1_ReplyReachesOrigin ==
    /\ \A k \in DOMAIN contact_threads :
         \E d \in delivered :
            /\ d.chat = k[1] /\ d.id = k[2]
            /\ contact_threads[k].user_chat_id = d.ochat
            /\ contact_threads[k].user_message_id = d.oid
    /\ (/\ last.h = "handle_admin_reply"
        /\ last.m.reply.id # 0
        /\ last.m.from \in admin_ids
        /\ <<last.m.reply.chat, last.m.reply.id>> \in DOMAIN contact_threads)
       => \E t \in tasks : t.msg = last.m /\ t.pc = "team_reply"
    /\ \A t \in tasks :
         t.pc \in {"team_reply", "confirm"}
         => {t.thread.user_chat_id} = { d.ochat : d \in CopyRepliedTo(t.msg) }
    /\ last.h = "reply_send"
       => /\ Len(sent) = 1
          /\ sent[1].kind = "team_reply"
          /\ sent[1].text = last.m.text
          /\ {sent[1].chat} = { d.ochat : d \in CopyRepliedTo(last.m) }
    /\ last.h = "reply_confirm"
       => /\ Len(sent) = 1
          /\ sent[1].kind = "confirm"
          /\ sent[1].chat = last.m.chat
          /\ sent[1].chat \notin Visitors

\* a reply to the copy of one of two operators reached the visitor while a
\* thread of another visitor is open
C1_Witness ==
    /\ last.h = "reply_send"
    /\ sent[1].kind = "team_reply" /\ sent[1].ok
    /\ \E d1 \in CopyRepliedTo(last.m) :
         /\ sent[1].chat = d1.ochat
         /\ \E d2 \in delivered :
              d2.ochat = d1.ochat /\ d2.oid = d1.oid /\ d2.chat # d1.chat
         /\ \E d3 \in delivered : d3.ochat # d1.ochat

\* C3: when the send to one operator fails during the fan-out, the broadcast
\* goes on, or it has already served every other operator it was called for.
C3_FailureIsolated ==
    (last.h = "broadcast_send" /\ ~sent[1].ok)
    => \/ \E t \in tasks : t.pc = "fanout" /\ BroadcastOf(t) = sent[1].bc
       \/ \A a \in sent[1].bc.snap \ {sent[1].chat} :
            \E d \in delivered :
               d.chat = a /\ d.ochat = sent[1].bc.ochat /\ d.oid = sent[1].bc.oid

\* C7: a broadcast called with no operator registered sends the
\* acknowledgment and then the notice to the origin chat, and sends no
\* summary to anyone.
C7_EmptySetBroadcast ==
    /\ (last.h = "broadcast_ack" /\ sent[1].bc.snap = {})
       => /\ Len(sent) = 2
          /\ sent[1].ok
          /\ sent[2].kind = "notice"
          /\ sent[2].chat = sent[1].bc.ochat
    /\ last.h = "broadcast_send" => sent[1].bc.snap # {}

\* the password handle_register reads from an update: the stripped rest
\* after the command, the empty text when nothing follows it
SuppliedSecret(text) ==
    LET parts == split1(text)
    IN  IF Len(parts) < 2 THEN <<>> ELSE strip(parts[2])

\* the update supplies a password, and it is the configured secret
CarriesSecret(text) ==
    /\ Len(split1(text)) >= 2
    /\ SuppliedSecret(text) = ADMIN_REGISTRATION_PASSWORD

\* C8: a /register update adds its sender to the operator set if and only if
\* the password it supplies is the configured secret, whatever the secret is:
\* a wrong one leaves the set unchanged, the right one makes the sender an
\* operator, and for a sender who is one already it succeeds and leaves the
\* set as it is.
C8_RegisterIffSecret ==
    [][ last'.h = "handle_register"
        => /\ admin_ids' =
                IF CarriesSecret(last'.m.text)
                THEN admin_ids \cup {last'.m.from}
                ELSE admin_ids
           /\ (sent'[1].kind = "reg_ok") <=> CarriesSecret(last'.m.text)
           /\ (last'.m.from \in admin_ids /\ sent'[1].kind = "reg_ok")
                => admin_ids' = admin_ids ]_vars

\* the default word was turned down, the secret being another one, for a
\* user who is not an operator while someone else is
C8_Witness ==
    /\ last.h = "handle_register"
    /\ sent[1].kind = "reg_bad"
    /\ SuppliedSecret(last.m.text) = DefaultSecret
    /\ ADMIN_REGISTRATION_PASSWORD # DefaultSecret
    /\ last.m.from \notin admin_ids
    /\ admin_ids # {}

\* C9: a reply from a user who is not an operator sends nothing and changes
\* nothing, also when the message replied to is keyed in the thread table.
C9_NonOperatorReply ==
    [][ (last'.h = "handle_admin_reply" /\ last'.m.from \notin admin_ids)
        => /\ sent' = <<>>
           /\ UNCHANGED <<admin_ids, contact_threads, collaborate_sessions, heap,
                          next_step, tasks, delivered, accepted>> ]_vars

\* a user who is not an operator replied to a forwarded copy
C9_Witness ==
    /\ last.h = "handle_admin_reply"
    /\ last.m.from \notin admin_ids
    /\ <<last.m.reply.chat, last.m.reply.id>> \in DOMAIN contact_threads
    /\ sent = <<>>
    /\ ~\E t \in tasks : t.msg = last.m

\* ------------------------------------------------------------ form claims
\* the capture handlers in the order of the slots they fill
SlotOrder ==
    <<"_capture_name", "_capture_organization", "_capture_idea",
      "_capture_timeline", "_capture_contact_info">>

\* the position of a handler's slot, 0 for no handler
SlotIndex(h) ==
    CASE h = "_capture_name" -> 1
      [] h = "_capture_organization" -> 2
      [] h = "_capture_idea" -> 3
      [] h = "_capture_timeline" -> 4
      [] h = "_capture_contact_info" -> 5
      [] OTHER -> 0

Slots(session) ==
    <<session.name, session.organization, session.idea, session.timeline,
      session.contact_info>>

FilledCount(session) ==
    (IF session.name # None THEN 1 ELSE 0)
    + (IF session.organization # None THEN 1 ELSE 0)
    + (IF session.idea # None THEN 1 ELSE 0)
    + (IF session.timeline # None THEN 1 ELSE 0)
    + (IF session.contact_info # None THEN 1 ELSE 0)

\* the filled slots are the first ones, one for each text taken
PrefixFilled(s) ==
    LET n == FilledCount(heap[s])
        slots == Slots(heap[s])
    IN  /\ Len(accepted[s]) = n
        /\ \A i \in 1..Len(SlotOrder) : (slots[i] # None) <=> (i <= n)
        /\ \A i \in 1..n : slots[i] = strip(accepted[s][i])

\* the session waits for the slot of handler h: exactly the slots before it
\* are filled
WaitsFor(s, h) ==
    /\ SlotIndex(h) # 0
    /\ PrefixFilled(s)
    /\ FilledCount(heap[s]) = SlotIndex(h) - 1

\* the continuations registered for any chat
Continuations ==
    UNION { { next_step[c][i] : i \in 1..Len(next_step[c]) } : c \in Chats }

\* the sessions a continuation or a form step still works on
LiveSessions ==
    { e.sess : e \in Continuations }
    \cup { t.sess : t \in { x \in tasks : x.pc \in {"prompt", "start", "retry"} } }
    \cup { collaborate_sessions[u] : u \in { v \in Users : collaborate_sessions[v] # 0 } }

\* C2: a visitor has at most one form session at any time, and a
\* /collaborate that passed the membership test never finds, when it stores
\* its session, one stored by another call.
C2_OneSessionPerVisitor ==
    /\ \A t \in tasks : t.pc = "store" => collaborate_sessions[t.msg.from] = 0
    /\ \A i \in LiveSessions : \A j \in LiveSessions :
         heap[i].user_id = heap[j].user_id => i = j

\* C4: no slot is skipped: every session's filled slots are the first ones of
\* the order name, organization, idea, timeline, contact info, one for each
\* text taken; a continuation, and a step in flight, asks for the first slot
\* that is not filled; a prompt that was sent is the prompt of that slot.
C4_NoSlotSkipped ==
    /\ \A s \in 1..Len(heap) : PrefixFilled(s)
    /\ \A e \in Continuations : WaitsFor(e.sess, e.nh)
    /\ \A t \in tasks :
         /\ t.pc \in {"prompt", "start", "retry"} => WaitsFor(t.sess, t.nh)
         /\ t.pc \in {"ack", "fanout"} /\ t.sess # 0
              => FilledCount(heap[t.sess]) = Len(SlotOrder)
    /\ (last.h = "prompt_done" /\ sent[1].ok)
       => LET e == next_step[sent[1].chat][Len(next_step[sent[1].chat])]
          IN  sent[1].kind = PromptFor(SlotOrder[FilledCount(heap[e.sess]) + 1])

\* two slots are filled and an answer that is not a text was turned down at the
\* third: the session still waits for the idea
C4_Witness ==
    /\ last.h = "retry_done"
    /\ sent[1].ok
    /\ Len(heap) = 1
    /\ Len(accepted[1]) = 2
    /\ heap[1].organization # None /\ heap[1].idea = None
    /\ next_step[last.m.chat] = <<[nh |-> "_capture_idea", sess |-> 1]>>

\* C5: an answer that is empty or not text writes no slot and leaves the
\* session at its slot, and the session goes on waiting for that slot: when
\* the step that turned the answer down ends, the continuation for the same
\* slot and session is registered again for the chat of the answer, so that
\* the retries repeat, without limit, until a text arrives.
C5_RetryRepeats ==
    [][ /\ (/\ last'.h = "_ensure_text"
            /\ last'.m.ctype # "text" \/ last'.m.text = <<>>)
           => heap' = heap /\ accepted' = accepted
        /\ \A t \in tasks :
             (t.pc = "retry" /\ t \notin tasks')
             => /\ heap' = heap /\ accepted' = accepted
                /\ WaitsFor(t.sess, t.nh)'
                /\ \E i \in 1..Len(next_step'[t.msg.chat]) :
                     next_step'[t.msg.chat][i] = [nh |-> t.nh, sess |-> t.sess]
      ]_vars

\* C6: a session whose five slots were answered in order is broadcast once:
\* the summary holds the five answers, each stripped, in their slots; the
\* session is out of the store and nothing is left that would continue it.
C6_RoundTrip ==
    /\ \A t \in tasks :
         (t.pc \in {"ack", "fanout"} /\ t.ack = "ack_collab")
         => /\ Len(accepted[t.sess]) = Len(SlotOrder)
            /\ t.summary.kind = "collab"
            /\ t.summary.body = [i \in 1..Len(SlotOrder) |-> strip(accepted[t.sess][i])]
            /\ t.summary.user_id = heap[t.sess].user_id
            /\ t.sess \notin LiveSessions
            /\ \A x \in tasks : x.sess = t.sess => x = t
    /\ \A s \in 1..Len(heap) :
         Len(accepted[s]) = Len(SlotOrder) => s \notin LiveSessions
    /\ (last.h = "_ensure_text" /\ \E t \in tasks : t.msg = last.m /\ t.pc = "ack")
       => collaborate_sessions[last.m.from] = 0

\* a completed form is being fanned out; its answers differ from slot to slot
\* and one of them was stripped
C6_Witness ==
    \E t \in tasks :
       /\ t.pc = "fanout" /\ t.ack = "ack_collab"
       /\ t.summary.body[1] # t.summary.body[2]
       /\ accepted[t.sess][2] # t.summary.body[2]
       /\ collaborate_sessions[t.msg.from] = 0

\* ---------------------------------------------------------- fan-out claims
\* C10: the summary of a broadcast goes only to operators registered when the
\* broadcast was called, and a broadcast that ends after a send that
\* succeeded has served every one of them.
C10_SnapshotFanout ==
    /\ last.h = "broadcast_send" => sent[1].chat \in sent[1].bc.snap
    /\ (/\ last.h = "broadcast_send"
        /\ sent[1].ok
        /\ ~\E t \in tasks : t.pc = "fanout" /\ BroadcastOf(t) = sent[1].bc)
       => \A a \in sent[1].bc.snap :
            \E d \in delivered :
               d.chat = a /\ d.ochat = sent[1].bc.ochat /\ d.oid = sent[1].bc.oid

\* -------------------------------------------------------- later form claims
\* C11: a /collaborate from a user whose session is in the store is answered
\* with the already-open text and nothing else: the store, the sessions with
\* their filled slots, the continuations and the steps in flight stay as they
\* are, and no first prompt is on its way.
C11_AlreadyOpenFrame ==
    [][ (last'.h = "handle_collaborate" /\ collaborate_sessions[last'.m.from] # 0)
        => /\ Len(sent') = 1
           /\ sent'[1].kind = "already"
           /\ sent'[1].chat = last'.m.chat
           /\ UNCHANGED <<collaborate_sessions, heap, next_step, tasks, accepted,
                          admin_ids, contact_threads, delivered>> ]_vars

\* a /collaborate was turned down for a user whose session has its first slot
\* filled
C11_Witness ==
    /\ last.h = "handle_collaborate"
    /\ sent # <<>> /\ sent[1].kind = "already"
    /\ collaborate_sessions[last.m.from] # 0
    /\ FilledCount(heap[collaborate_sessions[last.m.from]]) >= 1

\* how many continuations and form steps in flight hold session s
Holders(s) ==
    Cardinality(UNION { { <<c, i>> : i \in { j \in 1..Len(next_step[c]) :
                                              next_step[c][j].sess = s } } :
                        c \in Chats })
    + Cardinality({ t \in tasks : t.sess = s /\ t.pc \in {"prompt", "start", "retry"} })

\* C12: events for a visitor never interleave on a session: a step leaves a
\* session as it is or is the capture of one text, which fills exactly the
\* first empty slot with that text, stripped, and rewrites no filled slot; and
\* at most one continuation or step in flight holds a session, so a prompt
\* takes one answer.
C12_OneStepPerAnswer ==
    [][ /\ \A s \in 1..Len(heap) :
             \/ heap'[s] = heap[s] /\ accepted'[s] = accepted[s]
             \/ /\ last'.h = "_ensure_text"
                /\ accepted'[s] = Append(accepted[s], last'.m.text)
                /\ FilledCount(heap'[s]) = FilledCount(heap[s]) + 1
                /\ Slots(heap'[s])[FilledCount(heap[s]) + 1] = strip(last'.m.text)
                /\ \A i \in 1..Len(SlotOrder) :
                     Slots(heap[s])[i] # None
                       => Slots(heap'[s])[i] = Slots(heap[s])[i]
        /\ \A s \in 1..Len(heap') : Holders(s)' <= 1 ]_vars

\* while the step that took a user's first answer is sending the next prompt,
\* another text of the same user arrived and was not taken as an answer
C12_Witness ==
    /\ last.h = "handle_admin_reply"
    /\ last.m.text # <<>>
    /\ \E t \in tasks :
         /\ t.h = "_ensure_text" /\ t.pc = "prompt"
         /\ heap[t.sess].user_id = last.m.from
         /\ last.m.id = t.msg.id + 1
         /\ Len(accepted[t.sess]) = 1
         /\ FilledCount(heap[t.sess]) = 1

\* the session stored for user u waits for an answer: its continuation is
\* registered for some chat
Awaiting(u) ==
    \E e \in Continuations : e.sess = collaborate_sessions[u]

\* C13: a session in the store ends up completed or waiting for its user's
\* next answer, never stuck, and a step on a message of one user leaves the
\* sessions and the store entries of every other user as they are.
C13_IndependentProgress ==
    /\ <>[](\A u \in Users : collaborate_sessions[u] # 0 => Awaiting(u))
    /\ [][ \A s \in 1..Len(heap) :
             heap[s].user_id # last'.m.from
             => /\ heap'[s] = heap[s]
                /\ collaborate_sessions'[heap[s].user_id]
                     = collaborate_sessions[heap[s].user_id] ]_vars

\* C20: a slot of a session is only filled with a text its own user sent: the
\* step that changes a session works on a message from the session's user.
C20_OwnTextOnly ==
    [][ \A s \in 1..Len(heap) :
          heap'[s] # heap[s]
          => /\ last'.h = "_ensure_text"
             /\ last'.m.from = heap[s].user_id ]_vars

\* ----------------------------------------------------- later route claims
\* the thread table and the forwarded copies that reached an operator match
\* one to one
ThreadsMatchCopies ==
    /\ \A k \in DOMAIN contact_threads :
         \E d \in delivered :
            /\ d.chat = k[1] /\ d.id = k[2]
            /\ contact_threads[k].user_chat_id = d.ochat
            /\ contact_threads[k].user_message_id = d.oid
    /\ \A d \in delivered : <<d.chat, d.id>> \in DOMAIN contact_threads
    /\ \A d1 \in delivered : \A d2 \in delivered :
         (d1.chat = d2.chat /\ d1.ochat = d2.ochat /\ d1.oid = d2.oid) => d1 = d2

\* C14: every thread entry stands for one forwarded copy that reached an
\* operator, one per operator and broadcast, under the key (operator chat,
\* id of the copy) and with the origin's chat id; an entry is only added by a
\* fan-out send that succeeded, and no step changes or removes an entry.
C14_ThreadsImmutable ==
    [][ /\ ThreadsMatchCopies'
        /\ \A k \in DOMAIN contact_threads :
             k \in DOMAIN contact_threads' /\ contact_threads'[k] = contact_threads[k]
        /\ \A k \in DOMAIN contact_threads' \ DOMAIN contact_threads :
             /\ last'.h = "broadcast_send"
             /\ sent'[1].ok /\ sent'[1].kind = "summary"
             /\ k = <<sent'[1].chat, sent'[1].id>>
             /\ contact_threads'[k].user_chat_id = sent'[1].bc.ochat ]_vars

\* a reply was routed through an entry and confirmed, and the entry and the
\* one of the other operator notified of the same broadcast are still there
C14_Witness ==
    /\ last.h = "reply_confirm"
    /\ sent[1].kind = "confirm" /\ sent[1].ok
    /\ <<last.m.reply.chat, last.m.reply.id>> \in DOMAIN contact_threads
    /\ \E k \in DOMAIN contact_threads :
         /\ k[1] # last.m.reply.chat
         /\ contact_threads[k].user_message_id
              = contact_threads[<<last.m.reply.chat, last.m.reply.id>>].user_message_id
         /\ contact_threads[k].user_chat_id
              = contact_threads[<<last.m.reply.chat, last.m.reply.id>>].user_chat_id

\* C15: a session leaves the store only in the step that fills its last
\* slot: whenever the store entry of a user changes from a session, it
\* becomes empty, in a capture step, and that session has all its slots
\* filled.
C15_RemovedOnlyOnCompletion ==
    [][ \A u \in Users :
          (collaborate_sessions[u] # 0
             /\ collaborate_sessions'[u] # collaborate_sessions[u])
          => /\ collaborate_sessions'[u] = 0
             /\ last'.h = "_ensure_text"
             /\ FilledCount(heap'[collaborate_sessions[u]]) = Len(SlotOrder) ]_vars

\* C16: the operator set only grows: no step takes a member out, a member is
\* added only by a /register step whose update carries the secret, and it is
\* the sender of that update; every such step leaves its sender a member.
C16_OperatorsAddOnly ==
    [][ /\ admin_ids \subseteq admin_ids'
        /\ admin_ids' # admin_ids
           => /\ last'.h = "handle_register"
              /\ CarriesSecret(last'.m.text)
              /\ admin_ids' = admin_ids \cup {last'.m.from}
        /\ (last'.h = "handle_register" /\ CarriesSecret(last'.m.text))
           => last'.m.from \in admin_ids' ]_vars

\* both members of staff are operators after a broadcast was fanned out and a
\* reply was routed
C16_Witness ==
    /\ admin_ids = Staff
    /\ last.h = "reply_send"
    /\ sent[1].ok
    /\ Cardinality(delivered) >= 2

\* C17: when an operator sends a text that is no reply, or replies to a
\* message that is no key of the thread table, nothing is sent, to a visitor
\* or to the operator, and no state changes.
C17_NoSuchThread ==
    [][ (/\ last'.h = "handle_admin_reply"
         /\ last'.m.from \in admin_ids
         /\ \/ last'.m.reply.id = 0
            \/ <<last'.m.reply.chat, last'.m.reply.id>> \notin DOMAIN contact_threads)
        => /\ sent' = <<>>
           /\ UNCHANGED <<admin_ids, contact_threads, collaborate_sessions, heap,
                          next_step, tasks, delivered, accepted>> ]_vars

\* an operator replied to a message that is no forwarded copy, in a chat that
\* holds one
C17_Witness ==
    /\ last.h = "handle_admin_reply"
    /\ last.m.from \in admin_ids
    /\ last.m.reply.id # 0
    /\ <<last.m.reply.chat, last.m.reply.id>> \notin DOMAIN contact_threads
    /\ \E k \in DOMAIN contact_threads : k[1] = last.m.reply.chat
    /\ sent = <<>>
    /\ ~\E t \in tasks : t.msg = last.m

\* -------------------------------------------------------- later form claims
\* C18: the step that takes the last answer of a session removes the user's
\* entry from the store before any send of the broadcast is attempted, and a
\* completed session is never in the store afterwards, whatever became of the
\* broadcast; the membership test of a new /collaborate then finds nothing.
C18_RemovedBeforeBroadcast ==
    [][ /\ \A s \in 1..Len(heap') :
             Len(accepted'[s]) = Len(SlotOrder)
             => \A u \in Users : collaborate_sessions'[u] # s
        /\ \A s \in 1..Len(heap) :
             (Len(accepted[s]) < Len(SlotOrder) /\ Len(accepted'[s]) = Len(SlotOrder))
             => /\ sent' = <<>>
                /\ collaborate_sessions'[heap[s].user_id] = 0
                /\ ~has_session(heap[s].user_id)'
                /\ \E t \in tasks' : t.sess = s /\ t.pc = "ack" ]_vars

\* the acknowledgment of a completed form failed to send, and the session is
\* out of the store
C18_Witness ==
    /\ last.h = "broadcast_ack"
    /\ sent[1].kind = "ack_collab" /\ ~sent[1].ok
    /\ Len(heap) = 1
    /\ Len(accepted[1]) = Len(SlotOrder)
    /\ collaborate_sessions[heap[1].user_id] = 0
    /\ tasks = {}

\* C19: every session in the store can still be advanced: its continuation
\* is registered, or a step in flight is about to register it.
C19_StoredSessionAdvances ==
    \A u \in Users :
       collaborate_sessions[u] # 0 => Holders(collaborate_sessions[u]) >= 1

====
